---- MODULE Spec2Model ----
(***************************************************************************)
(* Model of src/delivery-engine.py: the MessageServer ingestion engine.    *)
(*                                                                         *)
(* A JSON / Python value is a record [t, n, s]: t is the Python type of    *)
(* the value, n its numeric value (int, bool, float) and s its text (str). *)
(* A key that a dict does not hold is the value Missing.                   *)
(***************************************************************************)
EXTENDS Integers, Sequences, FiniteSets, TLC

VARIABLES
    recipients,          \* self._recipients: str(recipient_id) -> recipient dict
    packages,            \* self._packages: the ledger, a list of event dicts
    dropped,             \* self._dropped
    max_packages_count,  \* self._max_packages_count: None or the remaining capacity
    stdout,              \* what _print_to_std has printed, in order
    configured,          \* the max_packages_count the server was constructed with
    calls,               \* number of process_input calls made so far
    last,                \* the last process_input call: its input and its outcome
    denied               \* history: the sends dropped while their recipient's
                         \* preference for their package_type was False
                         \* (recorded by the resend scenarios only)

vars == <<recipients, packages, dropped, max_packages_count, stdout,
          configured, calls, last, denied>>

----------------------------------------------------------------------------
(* Bounds of the model                                                     *)

MaxCalls == 3
MaxCap == 2
MaxValidationCalls == 2
MaxResendCalls == 4

----------------------------------------------------------------------------
(* Python values                                                           *)

IntV(n) == [t |-> "int", n |-> n, s |-> ""]
BoolV(b) == [t |-> "bool", n |-> IF b THEN 1 ELSE 0, s |-> ""]
FloatV(n) == [t |-> "float", n |-> n, s |-> ""]       \* the float n.0
StrV(s) == [t |-> "str", n |-> 0, s |-> s]
None == [t |-> "NoneType", n |-> 0, s |-> ""]
Missing == [t |-> "missing", n |-> 0, s |-> ""]

True == BoolV(TRUE)
False == BoolV(FALSE)

NumericTypes == {"int", "bool", "float"}

\* a == b in Python: numbers compare by value across int, bool and float
PyEq(a, b) ==
    IF a.t \in NumericTypes /\ b.t \in NumericTypes THEN a.n = b.n
    ELSE a.t = b.t /\ a.s = b.s

\* isinstance(value, int): bool is a subclass of int
IsInstanceInt(value) == value.t \in {"int", "bool"}

IsInstanceStr(value) == value.t = "str"

\* isinstance(value, bool | NoneType)
IsInstanceBoolOrNone(value) == value.t \in {"bool", "NoneType"}

\* str(value), used as the key of self._recipients
PyStr(value) ==
    CASE value.t = "int" -> ToString(value.n)
      [] value.t = "bool" -> (IF value.n = 1 THEN "True" ELSE "False")
      [] value.t = "float" -> ToString(value.n) \o ".0"
      [] value.t = "str" -> value.s
      [] OTHER -> "None"

\* (ACTIONS is a reserved word of TLA+)
ACTIONS_ == <<StrV("send_package"), StrV("update_preference")>>
PACKAGE_TYPES == <<StrV("marketing"), StrV("personal")>>

\* x in (tuple): membership by ==
InTuple(x, tuple) == \E i \in 1..Len(tuple) : PyEq(x, tuple[i])

----------------------------------------------------------------------------
(* Dicts of the program: a record over Keys, Missing where a key is absent *)

BaseFields == {"action", "timestamp", "recipient_id"}
SendFields == BaseFields \cup {"sender_id", "package_id", "package_type"}
UpdateFields == BaseFields \cup {"personal_package", "marketing_package"}
AT_LEAST_ONE_REQUIRED_FIELDS == <<"personal_package", "marketing_package">>
Keys == SendFields \cup UpdateFields \cup {"extra"}

HasKeys(d) == {k \in Keys : d[k] # Missing}

\* d.get(k): None when the key is absent
Get(d, k) == IF d[k] = Missing THEN None ELSE d[k]

\* dict equality: the same keys with == values
DictEq(a, b) == \A k \in Keys : PyEq(a[k], b[k])

EmptyDict == [k \in Keys |-> Missing]

----------------------------------------------------------------------------
(* Dataclasses: Base, SendPackage, UpdatePackage                           *)

\* the declared type of a dataclass field
FieldIsInstance(field_name, actual_value) ==
    CASE field_name \in {"action", "timestamp", "package_type"} ->
            IsInstanceStr(actual_value)
      [] field_name \in {"recipient_id", "sender_id", "package_id"} ->
            IsInstanceInt(actual_value)
      [] OTHER -> IsInstanceBoolOrNone(actual_value)

\* the generated __init__(**loaded_json) raises TypeError on an unexpected
\* keyword and on a missing field that has no default
InitRaises(loaded_json, fields, required) ==
    ~ (required \subseteq HasKeys(loaded_json) /\ HasKeys(loaded_json) \subseteq fields)

\* UpdatePackage(**loaded_json): the two preference fields default to None
UpdatePackage(loaded_json) ==
    [k \in Keys |->
        IF k \in {"personal_package", "marketing_package"} /\ loaded_json[k] = Missing
        THEN None ELSE loaded_json[k]]

SendPackage(loaded_json) == loaded_json

\* Base.validate raises
BaseValidateRaises(item, fields) ==
    \E field_name \in fields :
        \/ ~ FieldIsInstance(field_name, item[field_name])
        \/ field_name = "action" /\ ~ InTuple(item[field_name], ACTIONS_)

\* SendPackage.validate raises
SendValidateRaises(item) ==
    \/ ~ InTuple(item.package_type, PACKAGE_TYPES)
    \/ BaseValidateRaises(item, SendFields)

\* mutant: the update is refused as soon as one preference field is None
UpdateValidateRaises_any_none(item) ==
    \/ \E i \in 1..Len(AT_LEAST_ONE_REQUIRED_FIELDS) :
          item[AT_LEAST_ONE_REQUIRED_FIELDS[i]] = None
    \/ BaseValidateRaises(item, UpdateFields)

\* UpdatePackage.validate raises: counter counts the preference fields that
\* are None
UpdateValidateRaises(item) ==
    LET counter == Cardinality({i \in 1..Len(AT_LEAST_ONE_REQUIRED_FIELDS) :
                                  item[AT_LEAST_ONE_REQUIRED_FIELDS[i]] = None})
    IN  \/ counter = Len(AT_LEAST_ONE_REQUIRED_FIELDS)
        \/ BaseValidateRaises(item, UpdateFields)

----------------------------------------------------------------------------
(* MessageServer._validate_json                                            *)
(* An input line is [syntax, obj]: syntax says what json.loads makes of    *)
(* the text ("object", "array", or "invalid" when it raises) and obj is    *)
(* the loaded object.                                                      *)

\* _validate_json(input) raises an Exception
_validate_json_raises(input) ==
    \/ input.syntax = "invalid"                   \* json.loads raises
    \/ input.syntax = "array"                     \* no attribute get
    \/ LET loaded_json == input.obj
           action_type == Get(loaded_json, "action")
       IN  /\ input.syntax = "object"
           /\ \/ action_type = None
              \/ /\ PyEq(action_type, ACTIONS_[1])
                 /\ \/ InitRaises(loaded_json, SendFields, SendFields)
                    \/ SendValidateRaises(SendPackage(loaded_json))
              \/ /\ ~ PyEq(action_type, ACTIONS_[1])
                 /\ PyEq(action_type, ACTIONS_[2])
                 /\ \/ InitRaises(loaded_json, UpdateFields, BaseFields)
                    \/ UpdateValidateRaises(UpdatePackage(loaded_json))
              \/ /\ ~ PyEq(action_type, ACTIONS_[1])
                 /\ ~ PyEq(action_type, ACTIONS_[2])

\* the dict _validate_json(input) returns when it does not raise
_validate_json(input) ==
    IF PyEq(Get(input.obj, "action"), ACTIONS_[1])
    THEN SendPackage(input.obj)
    ELSE UpdatePackage(input.obj)

----------------------------------------------------------------------------
(* Input lines                                                             *)

Object(obj) == [syntax |-> "object", obj |-> obj]

Send(timestamp, sender_id, recipient_id, package_id, package_type) ==
    [EmptyDict EXCEPT !.action = ACTIONS_[1], !.timestamp = timestamp,
                      !.sender_id = sender_id, !.recipient_id = recipient_id,
                      !.package_id = package_id, !.package_type = package_type]

Update(timestamp, recipient_id, personal_package, marketing_package) ==
    [EmptyDict EXCEPT !.action = ACTIONS_[2], !.timestamp = timestamp,
                      !.recipient_id = recipient_id,
                      !.personal_package = personal_package,
                      !.marketing_package = marketing_package]

RecipientIds == {IntV(1), True}
PreferenceValues == {Missing, True, False}

\* the package each sender offers: one package_id per package_type
PackageOf(package_type) ==
    IF package_type = PACKAGE_TYPES[1] THEN IntV(6) ELSE IntV(7)

\* one package of each type for each recipient
SendInputs ==
    {Object(Send(StrV("t1"), IntV(5), r, PackageOf(ty), ty)) :
        r \in RecipientIds, ty \in {PACKAGE_TYPES[1], PACKAGE_TYPES[2]}}

\* a retry that is not a full resend: the same package to the same
\* recipient with a later timestamp (as TEST_DATA lines 13-14)
RetryInputs ==
    {Object(Send(StrV("t2"), IntV(5), IntV(1), PackageOf(PACKAGE_TYPES[2]),
                 PACKAGE_TYPES[2]))}

\* every combination of the two preference fields for recipient 1, and
\* the opt-out of both (as TEST_DATA line 11) for the other recipients
UpdateInputs ==
    {Object(Update(StrV("t1"), IntV(1), pp, mp)) :
        pp \in PreferenceValues, mp \in PreferenceValues}
    \cup {Object(Update(StrV("t1"), r, False, False)) : r \in RecipientIds}

GoodSend == Send(StrV("t1"), IntV(5), IntV(1), IntV(7), PACKAGE_TYPES[2])
GoodUpdate == Update(StrV("t1"), IntV(1), False, Missing)

MalformedInputs ==
    { [syntax |-> "invalid", obj |-> EmptyDict],
      [syntax |-> "array", obj |-> EmptyDict],
      Object(EmptyDict),
      Object([GoodSend EXCEPT !.action = None]),
      Object([GoodSend EXCEPT !.action = StrV("delete")]),
      Object([GoodSend EXCEPT !.package_id = Missing]),
      Object([GoodSend EXCEPT !.extra = IntV(1)]),
      Object([GoodSend EXCEPT !.recipient_id = FloatV(1)]),
      Object([GoodSend EXCEPT !.sender_id = StrV("5")]),
      Object([GoodSend EXCEPT !.timestamp = IntV(1)]),
      Object([GoodSend EXCEPT !.package_type = StrV("bulk")]),
      Object([GoodUpdate EXCEPT !.personal_package = IntV(1)]),
      Object([GoodUpdate EXCEPT !.personal_package = None]),
      Object([GoodUpdate EXCEPT !.recipient_id = StrV("1")]),
      Object([GoodUpdate EXCEPT !.sender_id = IntV(5)]) }

Inputs == SendInputs \cup RetryInputs \cup UpdateInputs \cup MalformedInputs

----------------------------------------------------------------------------
(* MessageServer                                                           *)

NoInput == [syntax |-> "none", obj |-> EmptyDict]

\* MessageServer.__init__, with or without the max_packages_count keyword
Init ==
    /\ recipients = [k \in {} |-> Missing]
    /\ packages = << >>
    /\ dropped = 0
    /\ max_packages_count \in {None} \cup {IntV(n) : n \in 0..MaxCap}
    /\ configured = max_packages_count
    /\ stdout = << >>
    /\ calls = 0
    /\ last = [input |-> NoInput, out |-> "none", why |-> "none"]
    /\ denied = {}

\* mutant: the duplicate test looks at the newest ledger entry only
InPackages_newest_only(input, list) ==
    Len(list) > 0 /\ DictEq(list[Len(list)], input)

\* mutant: the duplicate test compares by identity (is), and a freshly
\* parsed dict is never the object the ledger holds
InPackages_by_identity(input, list) == FALSE

\* input in self._packages: list membership by dict equality
InPackages(input, list) == \E i \in 1..Len(list) : DictEq(list[i], input)

\* recipient[key] raises KeyError
KeyError(recipient, key) == recipient[key] = Missing

\* _is_allowed_package raises KeyError: the first condition always reads
\* marketing_package, the second one reads personal_package when reached
_is_allowed_package_raises(recipient, request) ==
    \/ KeyError(recipient, "marketing_package")
    \/ /\ ~ (recipient.marketing_package = True
             /\ PyEq(request.package_type, StrV("marketing")))
       /\ KeyError(recipient, "personal_package")

\* mutant: either permission lets any package through
_is_allowed_package_any_permission(recipient, request) ==
    \/ recipient.marketing_package = True
    \/ recipient.personal_package = True

\* MessageServer._is_allowed_package, when it does not raise
_is_allowed_package(recipient, request) ==
    \/ /\ recipient.marketing_package = True
       /\ PyEq(request.package_type, StrV("marketing"))
    \/ /\ recipient.personal_package = True
       /\ PyEq(request.package_type, StrV("personal"))

\* mutant: setdefault instead of update, a key d holds keeps its value
DictUpdate_setdefault(d, other) ==
    [k \in DOMAIN d |-> IF d[k] = Missing THEN other[k] ELSE d[k]]

\* dict.update: the keys of other overwrite those of d
DictUpdate(d, other) ==
    [k \in DOMAIN d |-> IF other[k] # Missing THEN other[k] ELSE d[k]]

\* the recipient dict _update_preference builds from the event
UpdateRecipient(input) ==
    [id |-> Get(input, "recipient_id"),
     personal_package |->
        IF Get(input, "personal_package") # None
        THEN Get(input, "personal_package") ELSE Missing,
     marketing_package |->
        IF Get(input, "marketing_package") # None
        THEN Get(input, "marketing_package") ELSE Missing]

\* the recipient dict _process_package creates for an unknown recipient
DefaultRecipient(input) ==
    [id |-> Get(input, "recipient_id"),
     personal_package |-> True,
     marketing_package |-> True]

\* self._recipients after lines 118-128 of _update_preference
RecipientsAfterUpdate(input) ==
    LET recipient_id == PyStr(Get(input, "recipient_id"))
        recipient == UpdateRecipient(input)
        created == IF recipient_id \notin DOMAIN recipients
                   THEN recipients @@ (recipient_id :> recipient)
                   ELSE recipients
    IN  [created EXCEPT ![recipient_id] = DictUpdate(@, recipient)]

\* mutant: the send stores the default recipient without testing whether
\* the recipient exists
RecipientsAfterSend_reset(input) ==
    (PyStr(Get(input, "recipient_id")) :> DefaultRecipient(input)) @@ recipients

\* self._recipients after lines 139-146 of _process_package
RecipientsAfterSend(input) ==
    LET recipient_id == PyStr(Get(input, "recipient_id"))
    IN  IF recipient_id \notin DOMAIN recipients
        THEN recipients @@ (recipient_id :> DefaultRecipient(input))
        ELSE recipients

\* mutant: the event is printed before the handler decides on it
Result_print_first(rcp, accepted, input, ret, why) ==
    [recipients |-> rcp,
     packages |-> IF accepted THEN Append(packages, input) ELSE packages,
     stdout |-> Append(stdout, input),
     dropped |-> IF ret = "False" THEN dropped + 1 ELSE dropped,
     ret |-> ret,
     why |-> why]

\* the result of a handler: the state it leaves and what it returns
\* (ret is "True", "False", or "raise" when an exception leaves it)
Result(rcp, accepted, input, ret, why) ==
    [recipients |-> rcp,
     packages |-> IF accepted THEN Append(packages, input) ELSE packages,
     stdout |-> IF accepted THEN Append(stdout, input) ELSE stdout,
     dropped |-> IF ret = "False" THEN dropped + 1 ELSE dropped,
     ret |-> ret,
     why |-> why]

\* MessageServer._update_preference
_update_preference(input) ==
    LET rcp == RecipientsAfterUpdate(input)
    IN  IF ~ InPackages(input, packages)
        THEN Result(rcp, TRUE, input, "True", "Accepted")
        ELSE Result(rcp, FALSE, input, "False", "Duplicate")

\* MessageServer._process_package
_process_package(input) ==
    LET recipient_id == PyStr(Get(input, "recipient_id"))
        rcp == RecipientsAfterSend(input)
        recipient == rcp[recipient_id]
    IN  IF ~ InPackages(input, packages)
        THEN IF _is_allowed_package_raises(recipient, input)
             THEN Result(rcp, FALSE, input, "raise", "KeyError")
             ELSE IF _is_allowed_package(recipient, input)
                  THEN Result(rcp, TRUE, input, "True", "Accepted")
                  ELSE Result(rcp, FALSE, input, "False", "PreferenceDenied")
        ELSE Result(rcp, FALSE, input, "False", "Duplicate")

\* mutant: the cutoff compares with < instead of <=
CapacityExhausted_below_zero ==
    max_packages_count # None /\ max_packages_count.n < 0

\* the capacity test at the head of process_input
CapacityExhausted ==
    max_packages_count # None /\ max_packages_count.n <= 0

\* the handler process_input dispatches a validated event to
Dispatch(json) ==
    IF PyEq(Get(json, "action"), ACTIONS_[1])
    THEN _process_package(json)
    ELSE _update_preference(json)

\* mutant: every handled event consumes capacity, accepted or not
CountAfter_every_event(ret) ==
    IF max_packages_count # None
    THEN IntV(max_packages_count.n - 1)
    ELSE max_packages_count

\* max_packages_count after a handler returned ret
CountAfter(ret) ==
    IF ret = "True" /\ max_packages_count # None
    THEN IntV(max_packages_count.n - 1)
    ELSE max_packages_count

\* mutant: the except clause swallows the error without counting it
ExceptHandler_pass(count) == count

\* self._dropped after the except clause of process_input
ExceptHandler(count) == count + 1

\* MessageServer.process_input
process_input(input) ==
    /\ calls' = calls + 1
    /\ configured' = configured
    /\ IF CapacityExhausted
       THEN /\ dropped' = dropped + 1
            /\ UNCHANGED <<recipients, packages, stdout, max_packages_count>>
            /\ last' = [input |-> input, out |-> "Dropped",
                        why |-> "CapacityExceeded"]
       ELSE IF _validate_json_raises(input)
       THEN /\ dropped' = ExceptHandler(dropped)
            /\ UNCHANGED <<recipients, packages, stdout, max_packages_count>>
            /\ last' = [input |-> input, out |-> "Dropped",
                        why |-> "ValidationFailed"]
       ELSE LET json == _validate_json(input)
                r == Dispatch(json)
            IN  /\ recipients' = r.recipients
                /\ packages' = r.packages
                /\ stdout' = r.stdout
                /\ dropped' = IF r.ret = "raise" THEN ExceptHandler(r.dropped)
                              ELSE r.dropped
                /\ max_packages_count' = CountAfter(r.ret)
                /\ last' = [input |-> input,
                            out |-> IF r.ret = "True" THEN "Accepted"
                                    ELSE "Dropped",
                            why |-> r.why]

\* server: process_input on each input line, MaxCalls lines at most
ProcessInput ==
    \E input \in Inputs :
        calls < MaxCalls /\ process_input(input) /\ UNCHANGED denied

Next == ProcessInput

Spec == Init /\ [][Next]_vars

\* MessageServer.results
results ==
    [packages_delivered |-> Len(packages), packages_dropped |-> dropped]

----------------------------------------------------------------------------
(* Type invariant of the model                                             *)

TypeOK ==
    /\ dropped \in 0..MaxCalls
    /\ calls \in 0..MaxCalls
    /\ Len(packages) <= MaxCalls
    /\ last.out \in {"none", "Accepted", "Dropped"}

----------------------------------------------------------------------------
(* Vocabulary of the properties                                            *)

\* the input line passes _validate_json as a send_package event
ValidSend(input) ==
    /\ ~ _validate_json_raises(input)
    /\ PyEq(Get(input.obj, "action"), ACTIONS_[1])

\* the input line passes _validate_json as an update_preference event
ValidUpdate(input) ==
    /\ ~ _validate_json_raises(input)
    /\ PyEq(Get(input.obj, "action"), ACTIONS_[2])

\* the ledger entries that are sends / the key of an event's recipient
IsSendEntry(entry) == PyEq(entry.action, ACTIONS_[1])
KeyOf(input) == PyStr(Get(input.obj, "recipient_id"))

----------------------------------------------------------------------------
(* C1 - C3: deduplication                                                  *)

\* C1: idempotent delivery. On a fresh engine with no capacity cap, a valid
\* send_package event e processed twice in a row gives Accepted and then
\* Dropped as a duplicate; e is printed exactly once and the ledger holds e
\* exactly once.
C1_IdempotentDelivery ==
    [][ ( /\ calls = 1
          /\ configured = None
          /\ ValidSend(last.input)
          /\ last'.input = last.input )
        => ( /\ last.out = "Accepted"
             /\ last'.out = "Dropped"
             /\ last'.why = "Duplicate"
             /\ stdout' = << _validate_json(last.input) >>
             /\ packages' = << _validate_json(last.input) >>
             /\ dropped' = 1 ) ]_vars

C1_Witness ==
    /\ calls = 2
    /\ configured = None
    /\ ValidSend(last.input)
    /\ last.why = "Duplicate"
    /\ packages = << _validate_json(last.input) >>
    /\ stdout = packages
    /\ dropped = 1

\* C2 (the claim as stated): a recipient receives a package_id at most
\* once, i.e. the ledger never holds two send_package entries with the same
\* recipient_id and the same package_id.
C2_AtMostOncePerPackage ==
    \A i, j \in 1..Len(packages) :
        ( /\ i # j
          /\ IsSendEntry(packages[i])
          /\ IsSendEntry(packages[j]) )
        => ~ ( /\ packages[i].recipient_id = packages[j].recipient_id
               /\ packages[i].package_id = packages[j].package_id )

\* C3: the ledger never holds two equal events, whatever sends and updates,
\* valid or not, were processed.
C3_NoEqualLedgerEntries ==
    \A i, j \in 1..Len(packages) :
        i # j => ~ DictEq(packages[i], packages[j])

\* a duplicate of an older entry was refused while the ledger held a newer one
C3_Witness ==
    /\ Len(packages) >= 2
    /\ last.why = "Duplicate"
    /\ ~ _validate_json_raises(last.input)
    /\ DictEq(packages[1], _validate_json(last.input))
    /\ \E i \in 1..Len(packages) : ~ IsSendEntry(packages[i])

----------------------------------------------------------------------------
(* C4 - C8: preferences                                                    *)

\* the preference a recipient currently has for a field: default-allow for
\* a recipient the store does not hold
Pref(key, field) ==
    IF key \in DOMAIN recipients THEN recipients[key][field] ELSE True

\* the preference field that governs a send
FieldOf(input) ==
    IF PyEq(Get(input.obj, "package_type"), StrV("marketing"))
    THEN "marketing_package" ELSE "personal_package"

\* C4 (the claim as stated): a valid send that is not in the ledger,
\* processed while capacity is not exhausted, is accepted if and only if
\* the recipient's current preference for the send's own package_type is
\* true; the preference for the other type has no influence.
C4_PreferenceDecision ==
    [][ ( /\ ValidSend(last'.input)
          /\ ~ InPackages(_validate_json(last'.input), packages)
          /\ ~ CapacityExhausted )
        => ( last'.out = "Accepted"
               <=> Pref(KeyOf(last'.input), FieldOf(last'.input)) = True )
      ]_vars

\* C5: while a recipient's marketing_package is false, every marketing send
\* addressed to it is dropped, not printed and not added to the ledger,
\* whatever was processed for other recipients; and
\* [update(r, marketing=false), send(marketing, r)] on a fresh engine gives
\* [Accepted, Dropped].
C5_PreferenceGating ==
    [][ /\ ( /\ ValidSend(last'.input)
             /\ FieldOf(last'.input) = "marketing_package"
             /\ KeyOf(last'.input) \in DOMAIN recipients
             /\ recipients[KeyOf(last'.input)].marketing_package = False )
           => ( /\ last'.out = "Dropped"
                /\ packages' = packages
                /\ stdout' = stdout
                /\ dropped' = dropped + 1 )
        /\ ( /\ calls = 1
             /\ configured # IntV(0)
             /\ last.input = Object(Update(StrV("t1"), IntV(1), Missing, False))
             /\ ValidSend(last'.input)
             /\ FieldOf(last'.input) = "marketing_package"
             /\ KeyOf(last'.input) = "1" )
           => ( last.out = "Accepted" /\ last'.out = "Dropped" )
      ]_vars

\* a marketing send to an opted-out recipient was dropped after another
\* recipient, still opted in, had been served
C5_Witness ==
    /\ ValidSend(last.input)
    /\ FieldOf(last.input) = "marketing_package"
    /\ KeyOf(last.input) = "1"
    /\ "1" \in DOMAIN recipients
    /\ recipients["1"].marketing_package = False
    /\ recipients["1"].personal_package = True
    /\ last.out = "Dropped"
    /\ ~ InPackages(_validate_json(last.input), packages)
    /\ Len(packages) = 2

\* C6 (the claim as stated): every recipient in the store has both
\* personal_package and marketing_package set to a boolean.
C6_PreferencesAreBoolean ==
    \A key \in DOMAIN recipients :
        /\ recipients[key].personal_package \in {True, False}
        /\ recipients[key].marketing_package \in {True, False}

\* C7 (the claim as stated): after an accepted update that supplies only
\* one of the two fields, the other field has the value it had before (the
\* default true when the recipient had never been referenced).
C7_PartialUpdatePreserves ==
    [][ ( /\ ValidUpdate(last'.input)
          /\ last'.out = "Accepted" )
        => /\ last'.input.obj.personal_package = Missing
              => recipients'[KeyOf(last'.input)].personal_package
                   = Pref(KeyOf(last'.input), "personal_package")
           /\ last'.input.obj.marketing_package = Missing
              => recipients'[KeyOf(last'.input)].marketing_package
                   = Pref(KeyOf(last'.input), "marketing_package")
      ]_vars

\* the fields of a send are of the exact types the contract asks for
TypeExactSend(input) ==
    /\ ValidSend(input)
    /\ \A k \in {"recipient_id", "sender_id", "package_id"} :
          input.obj[k].t = "int"

\* C8 (the claim as stated): the first valid send addressed to a recipient
\* that no earlier event has referenced is accepted, whatever its
\* package_type, while capacity is not exhausted.
C8_DefaultAllow ==
    [][ ( /\ TypeExactSend(last'.input)
          /\ KeyOf(last'.input) \notin DOMAIN recipients
          /\ ~ CapacityExhausted )
        => last'.out = "Accepted" ]_vars

----------------------------------------------------------------------------
(* C9 - C10: malformed records and the capacity cutoff                     *)

\* the records of Inputs that the contract calls malformed: invalid syntax,
\* missing or unknown action, missing, extra or wrongly typed field,
\* invalid package_type, update with both preference fields absent
RejectedInputs ==
    MalformedInputs
    \cup {Object(Update(StrV("t1"), IntV(1), Missing, Missing))}

\* C9: a record that fails validation is dropped and nothing else happens:
\* the dropped counter grows by exactly one, and the Preference Store, the
\* ledger, the printed output and the capacity counter are unchanged.
C9_InvalidRecordDropped ==
    [][ ( \/ _validate_json_raises(last'.input)
          \/ last'.input \in RejectedInputs )
        => ( /\ last'.out = "Dropped"
             /\ dropped' = dropped + 1
             /\ UNCHANGED <<recipients, packages, stdout, max_packages_count>> )
      ]_vars

\* a malformed record was validated and dropped by an engine that holds
\* recipients and ledger entries and still has capacity left
C9_Witness ==
    /\ last.input \in RejectedInputs
    /\ last.why = "ValidationFailed"
    /\ Len(packages) >= 1
    /\ DOMAIN recipients # {}
    /\ configured = IntV(2)
    /\ max_packages_count = IntV(1)
    /\ dropped >= 1

\* C10: with a capacity N configured, accepted events + remaining capacity
\* = N and at most N events are accepted; the counter moves only on an
\* Accepted outcome, by one; with capacity 1, two distinct valid sends give
\* [Accepted, Dropped(CapacityExceeded)].
C10_CapacityCutoff ==
    /\ [] ( configured # None
            => /\ Len(packages) + max_packages_count.n = configured.n
               /\ Len(packages) <= configured.n )
    /\ [][ /\ max_packages_count' # max_packages_count
              => /\ last'.out = "Accepted"
                 /\ max_packages_count'.n = max_packages_count.n - 1
           /\ last'.out = "Dropped"
              => max_packages_count' = max_packages_count
           /\ ( /\ calls = 1
                /\ configured = IntV(1)
                /\ ValidSend(last.input)
                /\ ValidSend(last'.input)
                /\ last'.input # last.input )
              => ( /\ last.out = "Accepted"
                   /\ last'.out = "Dropped"
                   /\ last'.why = "CapacityExceeded" )
         ]_vars

\* capacity 1: the second of two distinct valid sends was cut off
C10_Witness ==
    /\ configured = IntV(1)
    /\ calls = 2
    /\ Len(packages) = 1
    /\ IsSendEntry(packages[1])
    /\ ValidSend(last.input)
    /\ ~ DictEq(_validate_json(last.input), packages[1])
    /\ last.why = "CapacityExceeded"
    /\ max_packages_count = IntV(0)

----------------------------------------------------------------------------
(* C11: after the cutoff                                                   *)

\* C11: once the configured capacity is exhausted, every further event,
\* valid or malformed, send or update, is dropped without being validated:
\* the dropped counter grows by one, the Preference Store (no recipient is
\* created), the ledger and the printed output stay unchanged, and the
\* capacity stays exhausted for the rest of the run.
C11_ExhaustedDropsAll ==
    [][ ( configured # None /\ max_packages_count.n <= 0 )
        => ( /\ last'.out = "Dropped"
             /\ last'.why = "CapacityExceeded"
             /\ dropped' = dropped + 1
             /\ UNCHANGED <<recipients, packages, stdout>>
             /\ max_packages_count'.n <= 0 ) ]_vars

\* after the only allowed event was accepted, a valid update for a
\* recipient the store does not hold was dropped and created nothing
C11_Witness ==
    /\ configured = IntV(1)
    /\ Len(packages) = 1
    /\ last.why = "CapacityExceeded"
    /\ ValidUpdate(last.input)
    /\ KeyOf(last.input) \notin DOMAIN recipients
    /\ dropped >= 1

----------------------------------------------------------------------------
(* C12 - C13: validation, on a corpus of typed records                     *)

\* the JSON values a field is tried with: an integer, a boolean, a float,
\* a string, null, and the field left out
TypedValues == {IntV(1), True, FloatV(1), StrV("1"), None, Missing}

\* the send of test_send_package_correct_validation with one field varied
SendVariants ==
    {Object([GoodSend EXCEPT ![k] = v]) :
        k \in {"recipient_id", "sender_id", "package_id"}, v \in TypedValues}
    \cup {Object([GoodSend EXCEPT !.timestamp = v]) :
            v \in {StrV("t1"), IntV(1), None, Missing}}
    \cup {Object([GoodSend EXCEPT !.package_type = v]) :
            v \in {PACKAGE_TYPES[1], PACKAGE_TYPES[2], StrV("bulk"),
                   IntV(1), None, Missing}}

\* updates of recipient 1 with every pair of preference values
UpdateVariants ==
    {Object(Update(StrV("t1"), IntV(1), pp, mp)) :
        pp \in {Missing, None, True, False, IntV(1), StrV("yes")},
        mp \in {Missing, None, True, False, IntV(1), StrV("yes")}}

ValidationInputs == SendVariants \cup UpdateVariants

\* process_input on records of the corpus
ProcessVariant ==
    \E input \in ValidationInputs :
        /\ calls < MaxValidationCalls
        /\ process_input(input)
        /\ UNCHANGED denied

SpecValidation == Init /\ [][ProcessVariant]_vars

IsSendEvent(input) ==
    input.syntax = "object" /\ PyEq(Get(input.obj, "action"), ACTIONS_[1])

IsUpdateEvent(input) ==
    input.syntax = "object" /\ PyEq(Get(input.obj, "action"), ACTIONS_[2])

\* what the contract asks of a send_package event
SendContract(obj) ==
    /\ HasKeys(obj) = SendFields
    /\ \A k \in {"sender_id", "recipient_id", "package_id"} : obj[k].t = "int"
    /\ obj.timestamp.t = "str"
    /\ obj.package_type \in {PACKAGE_TYPES[1], PACKAGE_TYPES[2]}

\* C12 (the claim as stated): validating a send_package event succeeds if
\* and only if sender_id, recipient_id and package_id are all present and
\* of integer type (a float, a string or a boolean is rejected), timestamp
\* is a string and package_type is marketing or personal.
C12_SendValidationTypeExact ==
    ( /\ IsSendEvent(last.input)
      /\ last.why \notin {"none", "CapacityExceeded"} )      \* it was validated
    => ( last.why # "ValidationFailed" <=> SendContract(last.input.obj) )

\* the preference fields an update supplies (present and not null)
Supplied(obj) ==
    {f \in {"personal_package", "marketing_package"} :
        obj[f] \notin {Missing, None}}

\* what the contract asks of the preference fields of an update
UpdateContract(obj) ==
    /\ Supplied(obj) # {}
    /\ \A f \in Supplied(obj) : obj[f].t = "bool"

\* C13: an update_preference event with integer recipient_id and string
\* timestamp is valid if and only if at least one of personal_package and
\* marketing_package is present (non-null) and every present one is a
\* boolean.
C13_UpdateValidation ==
    ( /\ last.out # "none"
      /\ IsUpdateEvent(last.input)
      /\ HasKeys(last.input.obj) \subseteq UpdateFields
      /\ last.input.obj.recipient_id.t = "int"
      /\ last.input.obj.timestamp.t = "str" )
    => /\ ~ _validate_json_raises(last.input) <=> UpdateContract(last.input.obj)
       /\ last.why = "ValidationFailed" => ~ UpdateContract(last.input.obj)
       /\ last.why \notin {"ValidationFailed", "CapacityExceeded"}
             => UpdateContract(last.input.obj)

\* an update that supplies just one boolean field passed validation, after
\* one with a non-boolean field had been refused
C13_Witness ==
    /\ last.input = Object(Update(StrV("t1"), IntV(1), True, Missing))
    /\ last.out = "Accepted"
    /\ dropped = 1
    /\ configured = None
    /\ packages = << _validate_json(last.input) >>

----------------------------------------------------------------------------
(* C14 - C16: retries and frame conditions                                 *)

\* the validated event is, field for field, an entry of the ledger
Recorded(input) ==
    /\ ~ _validate_json_raises(input)
    /\ \E i \in 1..Len(packages) : packages[i] = _validate_json(input)

\* C14 (the claim as stated): processing an update_preference event that is
\* already in the ledger is dropped and leaves the Preference Store
\* unchanged.
C14_DuplicateUpdateNoOp ==
    [][ ( /\ ValidUpdate(last'.input)
          /\ Recorded(last'.input)
          /\ ~ CapacityExhausted )
        => ( /\ last'.out = "Dropped"
             /\ recipients' = recipients ) ]_vars

\* C15: the ledger only grows, no entry is removed or changed; an event
\* that is in the ledger is dropped whenever it is processed again,
\* whatever was processed in between; and
\* [send(personal, 1, A), update(1, personal=false), send(personal, 1, A)]
\* gives [Accepted, Accepted, Dropped] with summary accepted 2, dropped 1.
C15_AcceptedOnce ==
    [][ /\ Len(packages') >= Len(packages)
        /\ SubSeq(packages', 1, Len(packages)) = packages
        /\ Recorded(last'.input)
              => ( last'.out = "Dropped" /\ packages' = packages )
        /\ ( /\ calls = 2
             /\ packages = << _validate_json(Object(GoodSend)),
                              _validate_json(Object(GoodUpdate)) >>
             /\ last'.input = Object(GoodSend) )
           => ( /\ last'.out = "Dropped"
                /\ Len(packages') = 2
                /\ dropped' = 1 )
      ]_vars

\* the scenario: the send was accepted, the update switched personal
\* packages off, and the resend was dropped as a duplicate
C15_Witness ==
    /\ calls = 3
    /\ packages = << _validate_json(Object(GoodSend)),
                     _validate_json(Object(GoodUpdate)) >>
    /\ last.input = Object(GoodSend)
    /\ last.why = "Duplicate"
    /\ results = [packages_delivered |-> 2, packages_dropped |-> 1]

\* C16: no recipient is ever removed; a send_package event, whatever its
\* outcome, leaves every recipient the store holds unchanged and can only
\* insert the default-allow entry of its own recipient.
C16_SendKeepsPreferences ==
    [][ /\ DOMAIN recipients \subseteq DOMAIN recipients'
        /\ ValidSend(last'.input)
           => /\ \A k \in DOMAIN recipients : recipients'[k] = recipients[k]
              /\ \A k \in DOMAIN recipients' \ DOMAIN recipients :
                    /\ k = KeyOf(last'.input)
                    /\ recipients'[k] =
                          [id |-> last'.input.obj.recipient_id,
                           personal_package |-> True,
                           marketing_package |-> True]
      ]_vars

\* a personal send was accepted for a recipient that had opted out of
\* marketing, and the opt-out is still there
C16_Witness ==
    /\ ValidSend(last.input)
    /\ last.out = "Accepted"
    /\ KeyOf(last.input) = "1"
    /\ recipients["1"].marketing_package = False
    /\ recipients["1"].personal_package = True
    /\ Len(packages) = 3

----------------------------------------------------------------------------
(* C17 - C19: updates, accounting and output                               *)

C18_AccountingComplete ==
    /\ [] ( results.packages_delivered + results.packages_dropped = calls )
    /\ [][ \/ /\ last'.out = "Accepted"
              /\ Len(packages') = Len(packages) + 1
              /\ dropped' = dropped
           \/ /\ last'.out = "Dropped"
              /\ Len(packages') = Len(packages)
              /\ dropped' = dropped + 1
         ]_vars

\* a send was dropped by the KeyError raised in _is_allowed_package, after
\* an accepted update, and the books still balance
C18_Witness ==
    /\ last.why = "KeyError"
    /\ results.packages_delivered >= 1
    /\ results.packages_delivered + results.packages_dropped = calls
    /\ calls = MaxCalls

\* C19: what has been printed is, in every state, the ledger in arrival
\* order; an accepted event is printed when it is recorded and a dropped
\* event is never printed.
C19_EmittedIffAccepted ==
    /\ [] ( stdout = packages )
    /\ [][ /\ last'.out = "Dropped" => stdout' = stdout
           /\ last'.out = "Accepted"
              => /\ stdout' = Append(stdout, _validate_json(last'.input))
                 /\ packages' = Append(packages, _validate_json(last'.input))
         ]_vars

\* two events were printed and a preference-denied one was not
C19_Witness ==
    /\ last.why = "PreferenceDenied"
    /\ Len(stdout) = 2
    /\ stdout = packages
    /\ dropped = 1

----------------------------------------------------------------------------
(* C20: a denied send processed again                                      *)

\* one recipient: the updates that supply a single preference field, the
\* opt-out of both, and a send of each package_type
ResendInputs ==
    {Object(Update(StrV("t1"), IntV(1), pp, Missing)) : pp \in {True, False}}
    \cup {Object(Update(StrV("t1"), IntV(1), Missing, mp)) : mp \in {True, False}}
    \cup {Object(Update(StrV("t1"), IntV(1), False, False))}
    \cup {Object(Send(StrV("t1"), IntV(5), IntV(1), PackageOf(ty), ty)) :
            ty \in {PACKAGE_TYPES[1], PACKAGE_TYPES[2]}}

\* process_input on the lines of a resend scenario; denied remembers the
\* sends that were dropped while the recipient's preference for their
\* package_type was False
ProcessResend ==
    \E input \in ResendInputs :
        /\ calls < MaxResendCalls
        /\ process_input(input)
        /\ denied' =
              IF /\ ValidSend(input)
                 /\ last'.why \in {"PreferenceDenied", "KeyError"}
                 /\ Pref(KeyOf(input), FieldOf(input)) = False
              THEN denied \cup {_validate_json(input)}
              ELSE denied

SpecResend == Init /\ [][ProcessResend]_vars

\* C20 (the claim as stated): every send in the ledger was permitted by
\* its recipient's preferences when it was recorded, and a send that was
\* dropped for preference denial is accepted when the identical event is
\* processed again after an update has re-enabled its package_type for the
\* recipient (the event is not in the ledger, capacity is not exhausted).
C20_DeniedSendLeavesNoTrace ==
    [][ /\ ( ValidSend(last'.input) /\ last'.out = "Accepted" )
           => Pref(KeyOf(last'.input), FieldOf(last'.input)) = True
        /\ ( /\ ValidSend(last'.input)
             /\ _validate_json(last'.input) \in denied
             /\ ~ Recorded(last'.input)
             /\ Pref(KeyOf(last'.input), FieldOf(last'.input)) = True
             /\ ~ CapacityExhausted )
           => last'.out = "Accepted"
      ]_vars

====
